---------------------------- MODULE Spec2Model ----------------------------
(***************************************************************************)
(* Model of ocrApplication/assets/server.py: the Flask view process_ocr    *)
(* behind POST /process_ocr, run for several requests at once, and the     *)
(* inference service (ollama.chat) it calls.                               *)
(*                                                                         *)
(* A request is handled in the steps of the view: request.get_json()       *)
(* (line 10), the check of 'texts' (lines 13-16), the evaluation of the    *)
(* arguments of ollama.chat (lines 20-37), the call itself, which blocks   *)
(* until the service returns or raises, and the mapping of the outcome to  *)
(* a response (lines 40-45).  Requests interleave at these steps.          *)
(***************************************************************************)
EXTENDS Integers, Sequences, FiniteSets, TLC

\* Number of requests in flight at once.
NReq == 2

Req == 1..NReq

---------------------------------------------------------------------------
(* JSON values as Python sees them after request.get_json().               *)

JNull == [t |-> "null"]
JBool(b) == [t |-> "bool", b |-> b]
JNum(n) == [t |-> "num", n |-> n]
JStr(s) == [t |-> "str", s |-> s]
JList(items) == [t |-> "list", items |-> items]
\* fields: a sequence of <<key, value>> pairs with distinct keys, in
\* insertion order, as a Python dict keeps them.
JObj(fields) == [t |-> "obj", fields |-> fields]

\* A request body that is not JSON at all.
Malformed == [t |-> "malformed"]

\* A Python name that is not bound yet.
Unset == [t |-> "unset"]

\* The request bodies the clients send.
Bodies ==
  { Malformed,
    JNull,
    JNum(5),
    JStr("abc"),
    JStr("texts"),
    JList(<<>>),
    JList(<<JStr("texts")>>),
    JObj(<<>>),
    JObj(<< <<"other", JNum(1)>> >>),
    JObj(<< <<"texts", JStr("not a list")>> >>),
    JObj(<< <<"texts", JNum(7)>> >>),
    JObj(<< <<"texts", JNull>> >>),
    JObj(<< <<"texts", JBool(TRUE)>> >>),
    JObj(<< <<"texts", JObj(<<>>)>> >>),
    JObj(<< <<"texts", JList(<<>>)>> >>),
    JObj(<< <<"texts", JList(<<JStr("A")>>)>> >>),
    JObj(<< <<"texts", JList(<<JStr("A"), JStr("B")>>)>> >>),
    JObj(<< <<"texts", JList(<<JNum(1), JNull, JList(<<JStr("A")>>)>>)>> >>) }

---------------------------------------------------------------------------
(* Python exceptions: a type and str(e).                                   *)

Exc(type, msg) == [type |-> type, msg |-> msg]
NoExc == [type |-> "none"]

---------------------------------------------------------------------------
(* What ollama.chat can do once called: return a reply, or raise.          *)

ChatReply(content) == [message |-> [role |-> "assistant", content |-> content]]

Outcomes ==
  { [k |-> "return", reply |-> ChatReply("Hello world")],
    [k |-> "return", reply |-> [message |-> [role |-> "assistant"]]],
    [k |-> "return", reply |-> [done |-> TRUE]],
    [k |-> "raise", exc |-> Exc("ConnectionError", "timed out")] }

NoOutcome == [k |-> "none"]

---------------------------------------------------------------------------
(* HTTP responses.                                                         *)

Response(status, body) == [status |-> status, body |-> body]
NoResponse == [status |-> 0]

\* jsonify({"error": msg}), status
ErrorBody(msg) == [error |-> msg]

\* jsonify({'processed_text': text})
ProcessedBody(text) == [processed_text |-> text]


---------------------------------------------------------------------------
(* The Python operations the view applies to the parsed body.              *)

\* Whether string `sub` occurs in string `s` (Python's `sub in s` on str).
IsSubstring(sub, s) ==
  \E k \in 1..(Len(s) - Len(sub) + 1) : SubSeq(s, k, k + Len(sub) - 1) = sub

\* `key in d` raises TypeError when d is not a container.
ContainsRaises(d) == d.t \in {"null", "num", "bool"}

\* `key in d`: a key of a dict, an element of a list, a substring of a str.
Contains(key, d) ==
  CASE d.t = "obj" -> \E k \in 1..Len(d.fields) : d.fields[k][1] = key
    [] d.t = "list" -> \E k \in 1..Len(d.items) : d.items[k] = JStr(key)
    [] d.t = "str" -> IsSubstring(key, d.s)
    [] OTHER -> FALSE

\* str(e) of the TypeError `key in d` raises.
ContainsError(d) ==
  Exc("TypeError",
      CASE d.t = "null" -> "argument of type 'NoneType' is not iterable"
        [] d.t = "num" -> "argument of type 'int' is not iterable"
        [] OTHER -> "argument of type 'bool' is not iterable")

\* d[key] with a str key raises TypeError on a list and on a str.
GetItemRaises(d) == d.t \in {"list", "str"}

GetItemError(d) ==
  Exc("TypeError",
      IF d.t = "list" THEN "list indices must be integers or slices, not str"
      ELSE "string indices must be integers, not 'str'")

\* d[key] of a dict that has the key.
GetItem(d, key) ==
  LET k == CHOOSE k \in 1..Len(d.fields) : d.fields[k][1] = key
  IN d.fields[k][2]

\* isinstance(v, list)
IsList(v) == v.t = "list"

\* repr(v), as the f-string of line 34 formats the list and its elements.
RECURSIVE Repr(_)
RECURSIVE ReprItems(_)
RECURSIVE ReprFields(_)
ReprItems(items) ==
  IF Len(items) = 0 THEN ""
  ELSE IF Len(items) = 1 THEN Repr(items[1])
  ELSE Repr(items[1]) \o ", " \o ReprItems(Tail(items))

ReprFields(fields) ==
  IF Len(fields) = 0 THEN ""
  ELSE LET one == "'" \o fields[1][1] \o "': " \o Repr(fields[1][2])
       IN IF Len(fields) = 1 THEN one
          ELSE one \o ", " \o ReprFields(Tail(fields))

Repr(v) ==
  CASE v.t = "null" -> "None"
    [] v.t = "bool" -> IF v.b THEN "True" ELSE "False"
    [] v.t = "num" -> ToString(v.n)
    [] v.t = "str" -> "'" \o v.s \o "'"
    [] v.t = "list" -> "[" \o ReprItems(v.items) \o "]"
    [] v.t = "obj" -> "{" \o ReprFields(v.fields) \o "}"

---------------------------------------------------------------------------
(* The pieces of process_ocr.                                              *)

\* The message of the 400 response (line 14).
InvalidInputMessage == "Invalid input. Please provide a list of OCR-extracted texts."

\* The model named in the call (line 21).
ModelName == "llava"

\* The system instruction (lines 26-29).
SystemPrompt ==
  "You are an expert text processor tasked with acquiring multiple OCR-extracted texts "
  \o "from the same image into a single, accurate ground truth text using a majority voting technique. "
  \o "Align the input strings, accounting for differences in length and word order. For each word position, "
  \o "select the most common word across all inputs, defaulting to the most reliable input if there's no clear majority."

\* The prefix of the user message (line 34).
UserPrefix == "The list of OCR extracted text is "

\* request.get_json() (line 10): raises BadRequest on a body that is not JSON.
GetJsonRaises(b) == b.t = "malformed"

GetJsonError == Exc("BadRequest", "400 Bad Request: Failed to decode JSON object")

\* Line 13 without its isinstance test: only the presence of 'texts' counts.
ValidationPresenceOnly(d) ==
  IF ContainsRaises(d) THEN "raise"
  ELSE IF ~Contains("texts", d) THEN "reject"
  ELSE IF GetItemRaises(d) THEN "raise"
  ELSE "accept"

\* Line 13 with the checks it leaves out: an empty list and a list with an
\* element that is not a str are rejected too.
ValidationStrict(d) ==
  IF ContainsRaises(d) THEN "raise"
  ELSE IF ~Contains("texts", d) THEN "reject"
  ELSE IF GetItemRaises(d) THEN "raise"
  ELSE LET v == GetItem(d, "texts")
       IN IF ~IsList(v) THEN "reject"
          ELSE IF Len(v.items) = 0 THEN "reject"
          ELSE IF \E k \in 1..Len(v.items) : v.items[k].t # "str" THEN "reject"
          ELSE "accept"

\* The condition of line 13, evaluated left to right with `or` short-circuit:
\* "raise" when an operand raises, "reject" when the condition is true,
\* "accept" when it is false.
Validation(d) ==
  IF ContainsRaises(d) THEN "raise"
  ELSE IF ~Contains("texts", d) THEN "reject"
  ELSE IF GetItemRaises(d) THEN "raise"
  ELSE IF ~IsList(GetItem(d, "texts")) THEN "reject"
  ELSE "accept"

\* The exception line 13 raises when Validation(d) = "raise".
ValidationError(d) == IF ContainsRaises(d) THEN ContainsError(d) ELSE GetItemError(d)

\* The response of line 14.
InvalidInputResponse == Response(400, ErrorBody(InvalidInputMessage))

\* The call without its system message.
ChatRequestUserOnly(texts) ==
  [model |-> ModelName,
   messages |-> << [role |-> "user", content |-> UserPrefix \o Repr(texts)] >>]

\* The keyword arguments of ollama.chat (lines 21-36).
ChatRequest(texts) ==
  [model |-> ModelName,
   messages |-> << [role |-> "system", content |-> SystemPrompt],
                   [role |-> "user", content |-> UserPrefix \o Repr(texts)] >>]

\* The reply relayed under another key.
SuccessResponseRenamed(content) == Response(200, [text |-> content])

\* The response of lines 40-42; jsonify answers with status 200.
SuccessResponse(content) == Response(200, ProcessedBody(content))

\* The 500 response without str(e).
FailureResponseGeneric(e) ==
  Response(500, ErrorBody("An error occurred while processing"))

\* The response of line 45.
FailureResponse(e) ==
  Response(500, ErrorBody("An error occurred while processing: " \o e.msg))

\* What the try block has in hand after the call: the exception the call
\* raised, the KeyError of response['message']['content'] on a reply that
\* lacks the key, or none.
CaughtException(o) ==
  IF o.k = "raise" THEN o.exc
  ELSE IF "message" \notin DOMAIN o.reply THEN Exc("KeyError", "'message'")
  ELSE IF "content" \notin DOMAIN o.reply.message THEN Exc("KeyError", "'content'")
  ELSE NoExc

\* Lines 40-45: the response for the outcome of the call.
MapOutcome(o) ==
  IF CaughtException(o) = NoExc THEN SuccessResponse(o.reply.message.content)
  ELSE FailureResponse(CaughtException(o))

\* Flask's answer to an exception that leaves the view: the HTTP error's own
\* page, or 500 Internal Server Error, in HTML.
FlaskErrorResponse(e) ==
  Response(IF e.type = "BadRequest" THEN 400 ELSE 500, [html |-> e.type])

---------------------------------------------------------------------------
(* The state: one record of locals per request, and what the inference     *)
(* service has been asked.                                                 *)

VARIABLES
  pc,              \* where each request stands
  body,            \* the body the client sent
  data,            \* `data` (line 10)
  extracted_text,  \* `extracted_text` (line 16)
  chat_args,       \* the evaluated arguments of ollama.chat (lines 21-36)
  calls,           \* the calls the inference service received, per request
  outcome,         \* what the call did: returned a reply, or raised
  exc,             \* the exception that left the view
  resp,            \* the response sent to the client
  steps            \* the steps the request has run, in order

vars == <<pc, body, data, extracted_text, chat_args, calls, outcome, exc, resp, steps>>

Init ==
  /\ pc = [i \in Req |-> "idle"]
  /\ body = [i \in Req |-> Unset]
  /\ data = [i \in Req |-> Unset]
  /\ extracted_text = [i \in Req |-> Unset]
  /\ chat_args = [i \in Req |-> Unset]
  /\ calls = [i \in Req |-> <<>>]
  /\ outcome = [i \in Req |-> NoOutcome]
  /\ exc = [i \in Req |-> NoExc]
  /\ resp = [i \in Req |-> NoResponse]
  /\ steps = [i \in Req |-> <<>>]

\* A client posts body b to /process_ocr, Flask enters the view (lines 7-8)
\* and data = request.get_json() runs (line 10).
GetJson(i, b) ==
  /\ pc[i] = "idle"
  /\ body' = [body EXCEPT ![i] = b]
  /\ IF GetJsonRaises(b)
     THEN /\ exc' = [exc EXCEPT ![i] = GetJsonError]
          /\ pc' = [pc EXCEPT ![i] = "raised"]
          /\ data' = data
     ELSE /\ data' = [data EXCEPT ![i] = b]
          /\ pc' = [pc EXCEPT ![i] = "validate"]
          /\ exc' = exc
  /\ UNCHANGED <<extracted_text, chat_args, calls, outcome, resp, steps>>

\* Lines 13-16: the check of 'texts', the 400 response, extracted_text.
Validate(i) ==
  /\ pc[i] = "validate"
  /\ LET v == Validation(data[i])
     IN /\ pc' = [pc EXCEPT ![i] =
                    CASE v = "raise" -> "raised"
                      [] v = "reject" -> "done"
                      [] OTHER -> "build"]
        /\ exc' = [exc EXCEPT ![i] =
                     IF v = "raise" THEN ValidationError(data[i]) ELSE @]
        /\ resp' = [resp EXCEPT ![i] =
                      IF v = "reject" THEN InvalidInputResponse ELSE @]
        /\ extracted_text' = [extracted_text EXCEPT ![i] =
                                IF v = "accept" THEN GetItem(data[i], "texts") ELSE @]
        /\ steps' = [steps EXCEPT ![i] =
                       IF v = "reject" THEN @ \o <<"validate", "respond">>
                       ELSE Append(@, "validate")]
  /\ UNCHANGED <<body, data, chat_args, calls, outcome>>

\* Lines 20-37, up to the call: the arguments of ollama.chat are evaluated.
BuildRequest(i) ==
  /\ pc[i] = "build"
  /\ chat_args' = [chat_args EXCEPT ![i] = ChatRequest(extracted_text[i])]
  /\ pc' = [pc EXCEPT ![i] = "call"]
  /\ steps' = [steps EXCEPT ![i] = Append(@, "build")]
  /\ UNCHANGED <<body, data, extracted_text, calls, outcome, exc, resp>>

\* ollama.chat(...) is entered (line 20): the service has the request, and
\* the view blocks on it.
Call(i) ==
  /\ pc[i] = "call"
  /\ calls' = [calls EXCEPT ![i] = Append(@, chat_args[i])]
  /\ pc' = [pc EXCEPT ![i] = "pending"]
  /\ steps' = [steps EXCEPT ![i] = Append(@, "call")]
  /\ UNCHANGED <<body, data, extracted_text, chat_args, outcome, exc, resp>>

\* The inference service answers the pending call: ollama.chat returns a
\* reply or raises.
ChatCompletes(i, o) ==
  /\ pc[i] = "pending"
  /\ outcome' = [outcome EXCEPT ![i] = o]
  /\ pc' = [pc EXCEPT ![i] = "map"]
  /\ UNCHANGED <<body, data, extracted_text, chat_args, calls, exc, resp, steps>>

\* Lines 40-45 with one retry: a first failure goes back to the call.
MapReplyRetry(i) ==
  /\ pc[i] = "map"
  /\ IF CaughtException(outcome[i]) # NoExc /\ Len(calls[i]) < 2
     THEN /\ pc' = [pc EXCEPT ![i] = "call"]
          /\ UNCHANGED <<resp, steps>>
     ELSE /\ resp' = [resp EXCEPT ![i] = MapOutcome(outcome[i])]
          /\ pc' = [pc EXCEPT ![i] = "done"]
          /\ steps' = [steps EXCEPT ![i] = @ \o <<"map", "respond">>]
  /\ UNCHANGED <<body, data, extracted_text, chat_args, calls, outcome, exc>>

\* Lines 40-45 reading what another request is doing: with another call
\* under way the reply is dropped for a 500.
MapReplyBusy(i) ==
  /\ pc[i] = "map"
  /\ resp' = [resp EXCEPT ![i] =
                IF \E j \in Req \ {i} : pc[j] \in {"pending", "map"}
                THEN Response(500, ErrorBody("An error occurred while processing: busy"))
                ELSE MapOutcome(outcome[i])]
  /\ pc' = [pc EXCEPT ![i] = "done"]
  /\ steps' = [steps EXCEPT ![i] = @ \o <<"map", "respond">>]
  /\ UNCHANGED <<body, data, extracted_text, chat_args, calls, outcome, exc>>

\* Lines 40-45 with a timeout on the call: a pending call may be given up
\* and answered with a 500.
MapReplyOrTimeout(i) ==
  /\ pc[i] \in {"pending", "map"}
  /\ resp' = [resp EXCEPT ![i] =
                IF pc[i] = "pending"
                THEN Response(500, ErrorBody("An error occurred while processing: timed out"))
                ELSE MapOutcome(outcome[i])]
  /\ pc' = [pc EXCEPT ![i] = "done"]
  /\ steps' = [steps EXCEPT ![i] = @ \o <<"map", "respond">>]
  /\ UNCHANGED <<body, data, extracted_text, chat_args, calls, outcome, exc>>

\* Lines 40-45: the reply, or the exception caught, becomes the response.
MapReply(i) ==
  /\ pc[i] = "map"
  /\ resp' = [resp EXCEPT ![i] = MapOutcome(outcome[i])]
  /\ pc' = [pc EXCEPT ![i] = "done"]
  /\ steps' = [steps EXCEPT ![i] = @ \o <<"map", "respond">>]
  /\ UNCHANGED <<body, data, extracted_text, chat_args, calls, outcome, exc>>

\* An exception left the view: Flask answers in its place.
FlaskHandlesException(i) ==
  /\ pc[i] = "raised"
  /\ resp' = [resp EXCEPT ![i] = FlaskErrorResponse(exc[i])]
  /\ pc' = [pc EXCEPT ![i] = "done"]
  /\ steps' = [steps EXCEPT ![i] = Append(@, "respond")]
  /\ UNCHANGED <<body, data, extracted_text, chat_args, calls, outcome, exc>>

\* The steps of the view itself, which run once enabled.
ViewStep(i) ==
  \/ Validate(i)
  \/ BuildRequest(i)
  \/ Call(i)
  \/ MapReply(i)
  \/ FlaskHandlesException(i)

\* Every step of every request, for clients that send the bodies of B.
NextOver(B) ==
  \/ \E i \in Req, b \in B : GetJson(i, b)
  \/ \E i \in Req : Validate(i)
  \/ \E i \in Req : BuildRequest(i)
  \/ \E i \in Req : Call(i)
  \/ \E i \in Req, o \in Outcomes : ChatCompletes(i, o)
  \/ \E i \in Req : MapReply(i)
  \/ \E i \in Req : FlaskHandlesException(i)

Next == NextOver(Bodies)

Spec == Init /\ [][Next]_vars

\* One body for each path through lines 10-16: get_json raises, `in` raises,
\* data['texts'] raises, no 'texts', 'texts' not a list, 'texts' a list.
LiveBodies ==
  { Malformed,
    JNull,
    JStr("texts"),
    JObj(<<>>),
    JObj(<< <<"texts", JStr("not a list")>> >>),
    JObj(<< <<"texts", JList(<<JStr("A"), JStr("B")>>)>> >>) }

LiveNext == NextOver(LiveBodies)

\* The view's own steps are taken once enabled (the interpreter runs the
\* statements of a request one after the other); nothing makes a client send
\* a request or the inference service answer one.
FairSpec == Init /\ [][LiveNext]_vars /\ \A i \in Req : WF_vars(ViewStep(i))

---------------------------------------------------------------------------
(* The vocabulary of the properties.                                       *)

InvalidInputReply ==
  [status |-> 400,
   body |-> [error |-> "Invalid input. Please provide a list of OCR-extracted texts."]]

\* The request has been sent, and has been answered.
Sent(i) == body[i] # Unset
Finished(i) == pc[i] = "done"

\* The body is a JSON value; it is an object with a `texts` field.
IsJson(b) == b.t \in {"null", "bool", "num", "str", "list", "obj"}
HasTextsField(b) ==
  b.t = "obj" /\ \E k \in 1..Len(b.fields) : b.fields[k][1] = "texts"
TextsField(b) ==
  b.fields[CHOOSE k \in 1..Len(b.fields) : b.fields[k][1] = "texts"][2]

\* `texts` is a list; a list of strings; a list the spec's data model rules
\* out (empty, or with an element that is not a string).
TextsIsList(b) == HasTextsField(b) /\ TextsField(b).t = "list"
TextsIsListOfStrings(b) ==
  /\ TextsIsList(b)
  /\ \A k \in 1..Len(TextsField(b).items) : TextsField(b).items[k].t = "str"
TextsIsOddList(b) ==
  /\ TextsIsList(b)
  /\ \/ Len(TextsField(b).items) = 0
     \/ \E k \in 1..Len(TextsField(b).items) : TextsField(b).items[k].t # "str"

\* The call returned a reply that has message.content; the call failed.
HasContent(o) ==
  /\ o.k = "return"
  /\ "message" \in DOMAIN o.reply
  /\ "content" \in DOMAIN o.reply.message
InferenceFailed(o) == o # NoOutcome /\ ~HasContent(o)

\* The message of the failure: str(e) of what the call raised, or of the
\* KeyError for the key the reply lacks.
FailureText(o) ==
  IF o.k = "raise" THEN o.exc.msg
  ELSE IF "message" \notin DOMAIN o.reply THEN "'message'"
  ELSE "'content'"

IsPrefix(s, t) == Len(s) <= Len(t) /\ SubSeq(t, 1, Len(s)) = s

FullRun == <<"validate", "build", "call", "map", "respond">>

---------------------------------------------------------------------------
(* The properties.                                                         *)

\* C1: a request whose JSON body carries no `texts` field (an object without
\* the key, or a JSON value that is not an object) is answered 400 with the
\* fixed validation message, and the inference service is not called for it.
C1_MissingTextsRejected ==
  \A i \in Req :
    (Sent(i) /\ IsJson(body[i]) /\ ~HasTextsField(body[i])) =>
      /\ calls[i] = <<>>
      /\ exc[i] = NoExc
      /\ Finished(i) => resp[i] = InvalidInputReply

\* C2: no exception leaves process_ocr, and every response that reports a
\* failure has a JSON body with exactly one field, `error`.
C2_AllFailuresCaught ==
  \A i \in Req :
    /\ exc[i] = NoExc
    /\ (resp[i] # NoResponse /\ resp[i].status # 200) =>
         DOMAIN resp[i].body = {"error"}

\* C3: a request whose `texts` is a list of strings, and whose inference call
\* returned a reply with message.content, is answered 200 with
\* {"processed_text": <that content>}.
C3_SuccessRelaysContent ==
  \A i \in Req :
    (Finished(i) /\ TextsIsListOfStrings(body[i]) /\ HasContent(outcome[i])) =>
      resp[i] = [status |-> 200,
                 body |-> [processed_text |-> outcome[i].reply.message.content]]

C3_Witness ==
  \E i \in Req :
    /\ Finished(i)
    /\ TextsIsList(body[i])
    /\ TextsField(body[i]) = JList(<<JStr("A")>>)
    /\ HasContent(outcome[i])
    /\ resp[i].status = 200
    /\ resp[i].body.processed_text = "Hello world"

\* C4: when the inference call of a request fails (it raises, or its reply
\* lacks message.content), the request is never answered 200, and is
\* answered 500 with {"error": "An error occurred while processing: <m>"},
\* <m> the message of the failure.
C4_InferenceFailureIs500 ==
  \A i \in Req :
    InferenceFailed(outcome[i]) =>
      /\ resp[i].status # 200
      /\ Finished(i) =>
           resp[i] = [status |-> 500,
                      body |-> [error |-> "An error occurred while processing: "
                                          \o FailureText(outcome[i])]]

C4_Witness ==
  \E i \in Req :
    /\ Finished(i)
    /\ outcome[i] # NoOutcome
    /\ outcome[i].k = "raise"
    /\ resp[i].status = 500
    /\ resp[i].body.error = "An error occurred while processing: timed out"

\* C5: a request whose body has a `texts` field that is not a list is
\* answered 400 with the fixed validation message, and the inference service
\* is not called for it.
C5_NonListTextsRejected ==
  \A i \in Req :
    (HasTextsField(body[i]) /\ TextsField(body[i]).t # "list") =>
      /\ calls[i] = <<>>
      /\ exc[i] = NoExc
      /\ pc[i] \in {"validate", "done"}
      /\ Finished(i) => resp[i] = InvalidInputReply

C5_Witness ==
  \E i \in Req :
    /\ Finished(i)
    /\ HasTextsField(body[i])
    /\ TextsField(body[i]) = JStr("not a list")
    /\ resp[i].status = 400
    /\ calls[i] = <<>>

\* C6: every call to the inference service names the model llava and carries
\* two messages: the fixed system instruction, then a user message whose
\* content is the fixed prefix followed by the repr of the calling request's
\* own `texts`, and of no other request's different `texts`.
C6_CallCarriesOwnTexts ==
  \A i \in Req : \A k \in 1..Len(calls[i]) :
    LET c == calls[i][k]
    IN /\ c.model = "llava"
       /\ Len(c.messages) = 2
       /\ c.messages[1] = [role |-> "system", content |-> SystemPrompt]
       /\ c.messages[2] =
            [role |-> "user",
             content |-> "The list of OCR extracted text is "
                         \o Repr(TextsField(body[i]))]
       /\ TextsField(body[i]) = JList(<<JNum(1), JNull, JList(<<JStr("A")>>)>>) =>
            c.messages[2].content = "The list of OCR extracted text is [1, None, ['A']]"
       /\ \A j \in Req \ {i} :
            (HasTextsField(body[j]) /\ TextsField(body[j]) # TextsField(body[i])) =>
              c.messages[2].content #
                "The list of OCR extracted text is " \o Repr(TextsField(body[j]))

C6_Witness ==
  \E i \in Req : \E j \in Req \ {i} :
    /\ Len(calls[i]) = 1
    /\ calls[i][1].messages[2].content = "The list of OCR extracted text is ['A', 'B']"
    /\ Len(calls[j]) = 1
    /\ calls[j][1].messages[2].content = "The list of OCR extracted text is []"

\* C7: the inference service is called at most once per request, never for
\* a request that does not pass validation, exactly once for an answered
\* request that passes it; after a failed call the request only goes on to
\* its 500 response, with one call made.
C7_AtMostOneCall ==
  \A i \in Req :
    /\ Len(calls[i]) <= 1
    /\ ~TextsIsList(body[i]) => Len(calls[i]) = 0
    /\ (Finished(i) /\ TextsIsList(body[i])) => Len(calls[i]) = 1
    /\ InferenceFailed(outcome[i]) =>
         /\ pc[i] \in {"map", "done"}
         /\ Len(calls[i]) = 1
         /\ Finished(i) => (resp[i].status = 500 /\ DOMAIN resp[i].body = {"error"})

C7_Witness ==
  \E i \in Req :
    /\ Finished(i)
    /\ InferenceFailed(outcome[i])
    /\ Len(calls[i]) = 1
    /\ resp[i].status = 500

\* C8: a request whose `texts` is the empty list, or a list with an element
\* that is not a string, is not answered 400: it reaches the inference call
\* and is answered 200 or 500 by the outcome of that call alone.
C8_LenientValidation ==
  \A i \in Req :
    TextsIsOddList(body[i]) =>
      /\ exc[i] = NoExc
      /\ resp[i].status # 400
      /\ Finished(i) =>
           /\ Len(calls[i]) = 1
           /\ outcome[i] # NoOutcome
           /\ resp[i].status = IF HasContent(outcome[i]) THEN 200 ELSE 500

C8_Witness ==
  \E i \in Req : \E j \in Req \ {i} :
    /\ Finished(i)
    /\ TextsIsList(body[i])
    /\ TextsField(body[i]) = JList(<<>>)
    /\ resp[i].status = 200
    /\ Finished(j)
    /\ TextsIsOddList(body[j])
    /\ Len(TextsField(body[j]).items) = 3
    /\ resp[j].status = 500

\* Two answered requests with the same body and the same outcome of their
\* inference calls have the same response, calls and escaped exception.
C9_SameInputsSameResponse ==
  \A i \in Req : \A j \in Req :
    (Finished(i) /\ Finished(j) /\ body[i] = body[j] /\ outcome[i] = outcome[j]) =>
      /\ resp[i] = resp[j]
      /\ calls[i] = calls[j]
      /\ exc[i] = exc[j]

\* A step leaves every request other than the one that moves as it was.
C9_StepIsLocal ==
  \A i \in Req :
    pc'[i] = pc[i] =>
      /\ body'[i] = body[i]
      /\ data'[i] = data[i]
      /\ extracted_text'[i] = extracted_text[i]
      /\ chat_args'[i] = chat_args[i]
      /\ calls'[i] = calls[i]
      /\ outcome'[i] = outcome[i]
      /\ exc'[i] = exc[i]
      /\ resp'[i] = resp[i]
      /\ steps'[i] = steps[i]

\* C9: under every interleaving of the requests, two answered requests with
\* the same body and the same outcome of their inference calls have the same
\* response, and a step of one request changes nothing of another request.
C9_RequestsIndependent == []C9_SameInputsSameResponse /\ [][C9_StepIsLocal]_vars

C9_Witness ==
  \E i \in Req : \E j \in Req \ {i} :
    /\ Finished(i)
    /\ Finished(j)
    /\ TextsIsListOfStrings(body[i])
    /\ body[i] = body[j]
    /\ HasContent(outcome[i])
    /\ outcome[i] = outcome[j]
    /\ resp[i].status = 200
    /\ resp[i] = resp[j]

\* The steps of a request are a prefix of validate, build, call, map,
\* respond, or end in a response before the call.
C10_Order ==
  \A i \in Req :
    \/ IsPrefix(steps[i], FullRun)
    \/ steps[i] \in {<<"validate", "respond">>, <<"respond">>}

\* A request has a response exactly when it is finished, and responding is
\* its last step.
C10_OneResponse ==
  \A i \in Req :
    /\ (resp[i] # NoResponse) <=> Finished(i)
    /\ Finished(i) => steps[i][Len(steps[i])] = "respond"

\* A request that does not pass validation never reaches the call.
C10_NoCallWhenInvalid ==
  \A i \in Req :
    ~TextsIsList(body[i]) =>
      /\ calls[i] = <<>>
      /\ \A k \in 1..Len(steps[i]) : steps[i][k] \notin {"build", "call", "map"}

\* A request whose call is pending has no response, and one that reached the
\* call has a response only if the call returned or raised.
C10_SilentWhilePending ==
  \A i \in Req :
    /\ pc[i] = "pending" => (resp[i] = NoResponse /\ outcome[i] = NoOutcome)
    /\ (calls[i] # <<>> /\ resp[i] # NoResponse) => outcome[i] # NoOutcome

\* A response, once sent, is never replaced.
C10_ResponseIsFinal ==
  \A i \in Req : resp[i] # NoResponse => resp'[i] = resp[i]

\* C10: each request runs validate, build, call, map, respond in that order
\* and has one response, which is final; a request that fails validation
\* responds without reaching the call; while its call is pending a request has
\* no response; a request whose call returned or raised, or that stopped
\* before the call, is answered eventually.
C10_LinearRun ==
  /\ [](C10_Order /\ C10_OneResponse /\ C10_NoCallWhenInvalid /\ C10_SilentWhilePending)
  /\ [][C10_ResponseIsFinal]_vars
  /\ \A i \in Req : (outcome[i] # NoOutcome) ~> (resp[i] # NoResponse)
  /\ \A i \in Req : (Sent(i) /\ ~TextsIsList(body[i])) ~> (resp[i] # NoResponse)

C10_Witness ==
  \E i \in Req : \E j \in Req \ {i} :
    /\ Finished(i)
    /\ steps[i] = FullRun
    /\ pc[j] = "pending"
    /\ resp[j] = NoResponse

============================================================================
